---------------------------- MODULE Spec2Model ----------------------------
(***************************************************************************)
(* lazydata/storage/remote.py: the remote storage backend.                 *)
(*                                                                         *)
(*   RemoteStorage.get_from_url / get_from_config   backend resolution     *)
(*   AWSRemoteStorage.__init__                      URL -> bucket, prefix  *)
(*   AWSRemoteStorage.check_storage_exists          bucket probe           *)
(*   AWSRemoteStorage.upload                        manifest sync loop     *)
(*   S3ProgressPercentage                           progress callback      *)
(*                                                                         *)
(* Python str values are sequences of one-character strings, so that       *)
(* startswith, strip, slicing, urlparse and PurePosixPath are computed.    *)
(***************************************************************************)
EXTENDS Integers, Sequences, FiniteSets, TLC

VARIABLES
    \* ---- backend resolution, bucket probe, key construction
    remote_url,     \* the argument of get_from_url
    config,         \* Config.config: a mapping with "files" and, optionally, "remote"
    rpc,            \* "start" | "resolved" | "failed"
    entry,          \* which entry point ran: "none" | "get_from_url" | "get_from_config"
    handle,         \* the AWSRemoteStorage object (url, bucket_name, path_prefix) or NoHandle
    error,          \* the exception resolution raised to the caller, or NoError
    head,           \* what the SDK answered to the last head_bucket, or NoResponse
    exists,         \* what check_storage_exists returned ("True" | "False") or raised
    bucket_there,   \* whether the bucket really exists at the remote
    rel,            \* a remote-relative path handed to the key construction
    s3_key,         \* the key built from handle.path_prefix and rel, or NoKey
    \* ---- upload
    store,          \* LocalStorage: hash -> cache file and remote-relative path
    given,          \* the caller's copies of the store and the config it passed to upload
    remote,         \* the set of keys that hold an object in the bucket
    run,            \* "first" | "second": which run of upload this is
    upc,            \* "idle" | "loop" | "done" | "failed"
    idx,            \* the position of the for loop in all_sha256
    log,            \* this run's entries so far: hash, key, whether the key held an
                    \* object when probed, the probe's answer, what was done
    uerror,         \* the exception that ended this run of upload, or NoError
    start,          \* the remote's keys when this run of upload began
    first,          \* how the first run ended, kept for the second
    \* ---- progress callback
    cb,             \* the S3ProgressPercentage of the file being transferred
    tpc,            \* each transfer thread's position inside __call__
    amt,            \* each transfer thread's bytes_amount
    tmp,            \* each transfer thread's value read from _seen_so_far
    calls,          \* the invocations that have taken the lock, in order: their amounts
    out,            \* what was written to stdout for this file: the _seen_so_far values
    files           \* how many callbacks (one per transferred file) were created

rvars == <<remote_url, config, rpc, entry, handle, error, head, exists, bucket_there, rel, s3_key>>
uvars == <<store, given, remote, run, upc, idx, log, uerror, start, first>>
pvars == <<cb, tpc, amt, tmp, calls, out, files>>
vars  == <<rvars, uvars, pvars>>

---------------------------------------------------------------------------
(* Python str operations *)

Whitespace == {" ", "\t", "\n", "\r"}

startswith(s, p) == Len(s) >= Len(p) /\ SubSeq(s, 1, Len(p)) = p

RECURSIVE lstrip(_)
lstrip(s) == IF s # <<>> /\ Head(s) \in Whitespace THEN lstrip(Tail(s)) ELSE s

RECURSIVE rstrip(_)
rstrip(s) ==
    IF s # <<>> /\ s[Len(s)] \in Whitespace THEN rstrip(SubSeq(s, 1, Len(s) - 1)) ELSE s

strip(s) == rstrip(lstrip(s))

\* s[1:]
DropFirst(s) == SubSeq(s, 2, Len(s))

\* s.find of any character of cs, from position from on; Len(s) + 1 when there is none
RECURSIVE FindAny(_, _, _)
FindAny(s, cs, from) ==
    IF from > Len(s) THEN Len(s) + 1
    ELSE IF s[from] \in cs THEN from
    ELSE FindAny(s, cs, from + 1)

Digits == {"0", "1", "2", "3", "4", "5", "6", "7", "8", "9"}

DigitValue(c) ==
    CASE c = "0" -> 0 [] c = "1" -> 1 [] c = "2" -> 2 [] c = "3" -> 3 [] c = "4" -> 4
      [] c = "5" -> 5 [] c = "6" -> 6 [] c = "7" -> 7 [] c = "8" -> 8 [] c = "9" -> 9

RECURSIVE DecimalValue(_)
DecimalValue(s) ==
    IF s = <<>> THEN 0
    ELSE 10 * DecimalValue(SubSeq(s, 1, Len(s) - 1)) + DigitValue(s[Len(s)])

ValueError == "ValueError"

\* int(s) of a str is the number a run of decimal digits spells (PyInt), and raises
\* ValueError for a string that holds anything else, or nothing (~ PyIntParses)
PyIntParses(s) == s # <<>> /\ \A k \in 1..Len(s) : s[k] \in Digits

PyInt(s) == DecimalValue(s)

---------------------------------------------------------------------------
(* urllib.parse.urlparse, for a URL with a scheme: the authority follows    *)
(* "//" and ends before the first "/", "?" or "#"; the path is what follows *)
(* the authority, up to the first "?" or "#".                               *)

urlparse(url) ==
    LET colon  == FindAny(url, {":"}, 1)
        rest   == SubSeq(url, colon + 1, Len(url))
        hasNet == startswith(rest, <<"/", "/">>)
        delim  == FindAny(rest, {"/", "?", "#"}, 3)
        netloc == IF hasNet THEN SubSeq(rest, 3, delim - 1) ELSE <<>>
        after  == IF hasNet THEN SubSeq(rest, delim, Len(rest)) ELSE rest
        stop   == FindAny(after, {"?", "#"}, 1)
    IN  [scheme |-> SubSeq(url, 1, colon - 1),
         netloc |-> netloc,
         path   |-> SubSeq(after, 1, stop - 1)]

---------------------------------------------------------------------------
(* pathlib.PurePosixPath(a, b) and its str() *)

\* the components of s between slashes
RECURSIVE Split(_)
Split(s) ==
    LET cut == FindAny(s, {"/"}, 1)
    IN  IF cut > Len(s) THEN <<s>>
        ELSE <<SubSeq(s, 1, cut - 1)>> \o Split(SubSeq(s, cut + 1, Len(s)))

RECURSIVE JoinSlash(_)
JoinSlash(parts) ==
    IF parts = <<>> THEN <<>>
    ELSE IF Len(parts) = 1 THEN parts[1]
    ELSE parts[1] \o <<"/">> \o JoinSlash(Tail(parts))

RECURSIVE LeadingSlashes(_)
LeadingSlashes(s) == IF s # <<>> /\ Head(s) = "/" THEN 1 + LeadingSlashes(Tail(s)) ELSE 0

\* POSIX keeps exactly two leading slashes; any other number of them is one root
PosixRoot(s) ==
    LET n == LeadingSlashes(s)
    IN  IF n = 0 THEN <<>> ELSE IF n = 2 THEN <<"/", "/">> ELSE <<"/">>

\* empty and "." components are dropped
PosixParts(s) == SelectSeq(Split(s), LAMBDA c : c # <<>> /\ c # <<".">>)

\* each argument is parsed on its own; an absolute argument discards what precedes it
PurePosixPathStr(a, b) ==
    LET absolute == startswith(b, <<"/">>)
        root     == IF absolute THEN PosixRoot(b) ELSE PosixRoot(a)
        parts    == IF absolute THEN PosixParts(b) ELSE PosixParts(a) \o PosixParts(b)
        text     == root \o JoinSlash(parts)
    IN  IF text = <<>> THEN <<".">> ELSE text

---------------------------------------------------------------------------
(* Inputs *)

S3Prefix  == <<"s", "3", ":", "/", "/">>
FtpPrefix == <<"f", "t", "p", ":", "/", "/">>

\* the characters URL tails are built from: a name character, the separator,
\* whitespace, and the query delimiter
TailChars == {"a", "/", " ", "?"}

MaxTail == 4

RECURSIVE StringsUpTo(_, _)
StringsUpTo(cs, n) ==
    IF n = 0 THEN {<<>>}
    ELSE LET shorter == StringsUpTo(cs, n - 1)
         IN  shorter \cup {<<c>> \o s : c \in cs, s \in {t \in shorter : Len(t) = n - 1}}

ExampleUrl       == S3Prefix \o <<"m", "y", "b", "u", "c", "k", "e", "t", "/", "p", "r", "e", "f", "i", "x">>
ExampleFtpUrl    == FtpPrefix \o <<"x">>
ExamplePrefixUrl == S3Prefix \o <<"m", "y", "b", "u", "c", "k", "e", "t", "/", "d", "a", "t", "a", "/", "v", "1", "/">>
ExampleRel       == <<"a", "b", "/", "c", "d", "1", "2", "3", "4", ".", "b", "i", "n">>

Urls ==
    {p \o t : p \in {S3Prefix, FtpPrefix}, t \in StringsUpTo(TailChars, MaxTail)}
        \cup {ExampleUrl, ExampleFtpUrl, ExamplePrefixUrl}

\* remote-relative paths a local store hands out
RelPaths == {<<"a">>, <<"a", "/", "a">>, ExampleRel}

NoHandle   == [kind |-> "none"]
NoError    == "none"
NoResponse == [kind |-> "none"]
NoKey      == <<"<none>">>


---------------------------------------------------------------------------
(* What the SDK answers to a head request: success, a ClientError carrying  *)
(* e.response['Error']['Code'], or an exception that is no ClientError.     *)

OkResponse       == [kind |-> "ok"]
ClientError(c)   == [kind |-> "ClientError", code |-> c]
ConnectionError  == [kind |-> "EndpointConnectionError"]

Code404       == <<"4", "0", "4">>
Code403       == <<"4", "0", "3">>
CodeNoSuchKey == <<"N", "o", "S", "u", "c", "h", "K", "e", "y">>

Responses ==
    {OkResponse, ClientError(Code404), ClientError(Code403), ClientError(CodeNoSuchKey),
     ConnectionError}

\* the answers the remote can give about something that is there or is not: it
\* reports success only for what exists and not-found only for what does not;
\* a permission, service or network failure can come at any time
HeadResponses(there) ==
    {r \in Responses :
        /\ r = OkResponse => there
        /\ (r.kind = "ClientError" /\ r.code = Code404) => ~there}

---------------------------------------------------------------------------
(* Backend resolution *)

UnsupportedUrl  == "RuntimeError: Url is not supported as a remote storage backend"
NeedsS3Url      == "RuntimeError: AWSRemoteStorage URL needs to start with s3://"
NotConfigured   == "RuntimeError: Remote storage backend not configured for this lazydata project."

Raised(e) == [kind |-> "error", error |-> e]

\* lines 75-76 left out
KeepLeadingSlash(p) == p

\* lines 75-76
StripLeadingSlash(p) == IF startswith(p, <<"/">>) THEN DropFirst(p) ELSE p

\* AWSRemoteStorage.__init__
AWSRemoteStorage(url) ==
    IF ~startswith(url, S3Prefix) THEN Raised(NeedsS3Url)
    ELSE LET p == urlparse(url)
         IN  [kind        |-> "handle",
              url         |-> url,
              bucket_name |-> p.netloc,
              path_prefix |-> StripLeadingSlash(strip(p.path))]

\* RemoteStorage.get_from_url
get_from_url(url) ==
    IF startswith(url, S3Prefix) THEN AWSRemoteStorage(url) ELSE Raised(UnsupportedUrl)

\* RemoteStorage.get_from_config
get_from_config(cfg) ==
    IF "remote" \in DOMAIN cfg THEN get_from_url(cfg["remote"]) ELSE Raised(NotConfigured)

\* the caller's view of a call that returned a handle or raised
Returned(entryPoint, result) ==
    /\ entry'  = entryPoint
    /\ handle' = IF result.kind = "handle" THEN result ELSE NoHandle
    /\ error'  = IF result.kind = "error" THEN result.error ELSE NoError
    /\ rpc'    = IF result.kind = "handle" THEN "resolved" ELSE "failed"

GetFromUrl ==
    /\ rpc = "start"
    /\ Returned("get_from_url", get_from_url(remote_url))
    /\ UNCHANGED <<remote_url, config, head, exists, bucket_there, rel, s3_key, uvars, pvars>>

GetFromConfig ==
    /\ rpc = "start"
    /\ Returned("get_from_config", get_from_config(config))
    /\ UNCHANGED <<remote_url, config, head, exists, bucket_there, rel, s3_key, uvars, pvars>>

---------------------------------------------------------------------------
(* AWSRemoteStorage.check_storage_exists *)

BucketNotFound == 404

\* lines 82-92: what the method returns (as Python prints it) or raises, given
\* the answer to head_bucket
check_storage_exists(resp) ==
    IF resp.kind = "ok" THEN [raised |-> NoError, returned |-> "True"]
    ELSE IF resp.kind = "ClientError" THEN
        IF ~PyIntParses(resp.code) THEN [raised |-> ValueError, returned |-> "none"]
        ELSE IF PyInt(resp.code) = BucketNotFound
             THEN [raised |-> NoError, returned |-> "False"]
             ELSE [raised |-> NoError, returned |-> "True"]
    ELSE [raised |-> resp.kind, returned |-> "none"]

NotCalled == [raised |-> NoError, returned |-> "none"]

CheckStorageExists ==
    /\ rpc = "resolved"
    /\ exists = NotCalled
    /\ \E resp \in HeadResponses(bucket_there) :
          LET r == check_storage_exists(resp)
          IN  /\ head'   = resp
              /\ exists' = r
    /\ UNCHANGED <<remote_url, config, rpc, entry, handle, error, bucket_there, rel, s3_key, uvars, pvars>>

---------------------------------------------------------------------------
(* Key construction, upload lines 102-103 *)

S3Key(path_prefix, remote_path) == PurePosixPathStr(path_prefix, remote_path)

BuildKey ==
    /\ rpc = "resolved"
    /\ s3_key = NoKey
    /\ \E r \in RelPaths :
          /\ rel'    = r
          /\ s3_key' = S3Key(handle.path_prefix, r)
    /\ UNCHANGED <<remote_url, config, rpc, entry, handle, error, head, exists, bucket_there, uvars, pvars>>

---------------------------------------------------------------------------
(* S3ProgressPercentage.__init__ *)

Free == 0

S3ProgressPercentage(size) == [size |-> size, seen_so_far |-> 0, lock |-> Free]

NoCallback == [size |-> 0, seen_so_far |-> 0, lock |-> Free]

---------------------------------------------------------------------------
(* AWSRemoteStorage.upload *)

Hashes == {"h1", "h2", "h3"}

\* the bytes of every cached file
FileSize == 4

\* LocalStorage.hash_to_file and LocalStorage.hash_to_remote_path of a populated
\* content store: one cache file and one remote-relative path per hash
StoreLayout ==
    [h \in Hashes |->
        [file        |-> <<"c", "a", "c", "h", "e", "/">> \o <<h>>,
         remote_path |-> CASE h = "h1" -> <<"a">>
                           [] h = "h2" -> <<"a", "/", "a">>
                           [] h = "h3" -> ExampleRel]]

hash_to_file(local, sha256)        == local[sha256].file
hash_to_remote_path(local, sha256) == local[sha256].remote_path

MaxManifest == 3

RECURSIVE SeqsUpTo(_, _)
SeqsUpTo(S, n) ==
    IF n = 0 THEN {<<>>}
    ELSE LET shorter == SeqsUpTo(S, n - 1)
         IN  shorter \cup {Append(q, x) : q \in {t \in shorter : Len(t) = n - 1}, x \in S}

\* config.config["files"]: one entry per tracked file
Manifests == SeqsUpTo({[hash |-> h] : h \in Hashes}, MaxManifest)

\* an object of the bucket that no manifest entry maps to
ForeignKey == <<"o", "t", "h", "e", "r">>

\* line 98, reversed
AllSha256Reversed(cfg) ==
    [k \in 1..Len(cfg["files"]) |-> cfg["files"][Len(cfg["files"]) + 1 - k].hash]

\* line 98
AllSha256(cfg) == [k \in 1..Len(cfg["files"]) |-> cfg["files"][k].hash]

ObjectNotFound == 404

\* lines 106-112 with exists = False as the default
head_object_exists_default_absent(resp) ==
    IF resp.kind = "ok" THEN [raised |-> NoError, exists |-> TRUE]
    ELSE IF resp.kind = "ClientError" THEN
        IF ~PyIntParses(resp.code) THEN [raised |-> ValueError, exists |-> FALSE]
        ELSE [raised |-> NoError, exists |-> FALSE]
    ELSE [raised |-> resp.kind, exists |-> FALSE]

\* lines 106-112: the value of exists after the try statement, or the exception
\* that leaves it, given the answer to head_object
head_object_exists(resp) ==
    IF resp.kind = "ok" THEN [raised |-> NoError, exists |-> TRUE]
    ELSE IF resp.kind = "ClientError" THEN
        IF ~PyIntParses(resp.code) THEN [raised |-> ValueError, exists |-> TRUE]
        ELSE IF PyInt(resp.code) = ObjectNotFound
             THEN [raised |-> NoError, exists |-> FALSE]
             ELSE [raised |-> NoError, exists |-> TRUE]
    ELSE [raised |-> resp.kind, exists |-> TRUE]

\* line 114 without the test
ShouldUploadAlways(ex) == TRUE

\* line 114
ShouldUpload(ex) == ~ex

S3UploadFailedError == "S3UploadFailedError"

\* the entry the loop is at: lines 100-103
CurrentHash == AllSha256(config)[idx]
CurrentKey  == S3Key(handle.path_prefix, hash_to_remote_path(store, CurrentHash))

Entry(resp, did) ==
    [hash |-> CurrentHash, key |-> CurrentKey, there |-> CurrentKey \in remote,
     resp |-> resp, did |-> did]

InLoop == upc = "loop" /\ idx <= Len(AllSha256(config))

\* lines 94-98 of the first run
UploadBegin ==
    /\ upc = "idle"
    /\ run = "first"
    /\ upc'   = "loop"
    /\ idx'   = 1
    /\ log'   = <<>>
    /\ start' = remote
    /\ UNCHANGED <<store, given, remote, run, uerror, first, rvars, pvars>>

\* the caller runs upload again after the first run returned or raised
UploadAgain ==
    /\ upc \in {"done", "failed"}
    /\ run = "first"
    /\ run'    = "second"
    /\ first'  = [status     |-> upc,
                  error      |-> uerror,
                  uploaded   |-> {log[j].key : j \in {k \in DOMAIN log : log[k].did = "uploaded"}},
                  remote_end |-> remote]
    /\ upc'    = "loop"
    /\ idx'    = 1
    /\ log'    = <<>>
    /\ uerror' = NoError
    /\ start'  = remote
    /\ UNCHANGED <<store, given, remote, rvars, pvars>>

\* lines 100-114, exists is true: nothing is transferred
UploadSkip ==
    /\ InLoop
    /\ \E resp \in HeadResponses(CurrentKey \in remote) :
          LET probe == head_object_exists(resp)
          IN  /\ probe.raised = NoError
              /\ ~ShouldUpload(probe.exists)
              /\ log' = Append(log, Entry(resp, "skipped"))
    /\ idx' = idx + 1
    /\ UNCHANGED <<store, given, remote, run, upc, uerror, start, first, rvars, pvars>>

\* lines 100-118, exists is false and upload_file returns
UploadTransfer ==
    /\ InLoop
    /\ \E resp \in HeadResponses(CurrentKey \in remote) :
          LET probe == head_object_exists(resp)
          IN  /\ probe.raised = NoError
              /\ ShouldUpload(probe.exists)
              /\ log' = Append(log, Entry(resp, "uploaded"))
    /\ remote' = remote \cup {CurrentKey}
    /\ cb'     = S3ProgressPercentage(FileSize)
    /\ files'  = files + 1
    /\ calls'  = <<>>
    /\ out'    = <<>>
    /\ idx'    = idx + 1
    /\ UNCHANGED <<store, given, run, upc, uerror, start, first, rvars, tpc, amt, tmp>>

\* lines 100-118 where upload_file raises, the error is swallowed and the loop
\* goes on to the next entry
UploadTransferFailsContinue ==
    /\ InLoop
    /\ \E resp \in HeadResponses(CurrentKey \in remote) :
          LET probe == head_object_exists(resp)
          IN  /\ probe.raised = NoError
              /\ ShouldUpload(probe.exists)
              /\ log' = Append(log, Entry(resp, "transfer_failed"))
    /\ cb'     = S3ProgressPercentage(FileSize)
    /\ files'  = files + 1
    /\ calls'  = <<>>
    /\ out'    = <<>>
    /\ idx'    = idx + 1
    /\ UNCHANGED <<store, given, remote, run, upc, uerror, start, first, rvars, tpc, amt, tmp>>

\* lines 100-118, exists is false and upload_file raises: nothing catches it
UploadTransferFails ==
    /\ InLoop
    /\ \E resp \in HeadResponses(CurrentKey \in remote) :
          LET probe == head_object_exists(resp)
          IN  /\ probe.raised = NoError
              /\ ShouldUpload(probe.exists)
              /\ log' = Append(log, Entry(resp, "transfer_failed"))
    /\ cb'     = S3ProgressPercentage(FileSize)
    /\ files'  = files + 1
    /\ calls'  = <<>>
    /\ out'    = <<>>
    /\ upc'    = "failed"
    /\ uerror' = S3UploadFailedError
    /\ UNCHANGED <<store, given, remote, run, idx, start, first, rvars, tpc, amt, tmp>>

\* lines 107-110: head_object raises something that is no ClientError, or int()
\* raises on the error code
UploadProbeRaises ==
    /\ InLoop
    /\ \E resp \in HeadResponses(CurrentKey \in remote) :
          LET probe == head_object_exists(resp)
          IN  /\ probe.raised # NoError
              /\ log'    = Append(log, Entry(resp, "probe_raised"))
              /\ uerror' = probe.raised
    /\ upc' = "failed"
    /\ UNCHANGED <<store, given, remote, run, idx, start, first, rvars, pvars>>

\* the for loop is exhausted and upload returns
UploadReturn ==
    /\ upc = "loop"
    /\ idx > Len(AllSha256(config))
    /\ upc' = "done"
    /\ UNCHANGED <<store, given, remote, run, idx, log, uerror, start, first, rvars, pvars>>

---------------------------------------------------------------------------
(* S3ProgressPercentage.__call__, invoked by the transfer's threads *)

MaxThreads == 2
MaxCalls   == 3
MaxFiles   == 2

Threads == 1..MaxThreads

\* bytes_amount: the bytes of a chunk just sent, or, when the transfer rewinds a
\* chunk to send it again, minus the bytes it had reported for it
Amounts == {-1, 1, 2}

RECURSIVE SumAmounts(_, _)
SumAmounts(cs, n) == IF n = 0 THEN 0 ELSE SumAmounts(cs, n - 1) + cs[n].amount

\* the net bytes thread t has reported for this file
SentBy(t) ==
    LET mine == SelectSeq(calls, LAMBDA c : c.thread = t)
    IN  SumAmounts(mine, Len(mine))

AllIdle == \A t \in Threads : tpc[t] = "idle"

\* upload lines 115-118: upload_file starts with a callback made for this file
StartTransfer ==
    /\ AllIdle
    /\ files < MaxFiles
    /\ cb'    = S3ProgressPercentage(FileSize)
    /\ files' = files + 1
    /\ calls' = <<>>
    /\ out'   = <<>>
    /\ UNCHANGED <<tpc, amt, tmp, rvars, uvars>>

\* a transfer thread calls the callback: line 128
Invoke(t) ==
    /\ files > 0
    /\ tpc[t] = "idle"
    /\ Len(calls) + Cardinality({u \in Threads : tpc[u] = "acquire"}) < MaxCalls
    /\ \E a \in Amounts :
          /\ a < 0 => SentBy(t) + a >= 0
          /\ amt' = [amt EXCEPT ![t] = a]
    /\ tpc' = [tpc EXCEPT ![t] = "acquire"]
    /\ UNCHANGED <<cb, tmp, calls, out, files, rvars, uvars>>

\* line 129 entered without waiting for the lock
AcquireNoWait(t) ==
    /\ tpc[t] = "acquire"
    /\ cb'    = [cb EXCEPT !.lock = t]
    /\ calls' = Append(calls, [thread |-> t, amount |-> amt[t]])
    /\ tpc'   = [tpc EXCEPT ![t] = "load"]
    /\ UNCHANGED <<amt, tmp, out, files, rvars, uvars>>

\* line 129: with self._lock
Acquire(t) ==
    /\ tpc[t] = "acquire"
    /\ cb.lock = Free
    /\ cb'    = [cb EXCEPT !.lock = t]
    /\ calls' = Append(calls, [thread |-> t, amount |-> amt[t]])
    /\ tpc'   = [tpc EXCEPT ![t] = "load"]
    /\ UNCHANGED <<amt, tmp, out, files, rvars, uvars>>

\* line 130, the read of self._seen_so_far
Load(t) ==
    /\ tpc[t] = "load"
    /\ tmp' = [tmp EXCEPT ![t] = cb.seen_so_far]
    /\ tpc' = [tpc EXCEPT ![t] = "store"]
    /\ UNCHANGED <<cb, amt, calls, out, files, rvars, uvars>>

\* line 130, the write of self._seen_so_far
Store(t) ==
    /\ tpc[t] = "store"
    /\ cb'  = [cb EXCEPT !.seen_so_far = tmp[t] + amt[t]]
    /\ tpc' = [tpc EXCEPT ![t] = "write"]
    /\ UNCHANGED <<amt, tmp, calls, out, files, rvars, uvars>>

\* lines 131-136: the progress line, with the whole percents of its percentage
Write(t) ==
    /\ tpc[t] = "write"
    /\ out' = Append(out, [seen       |-> cb.seen_so_far,
                           size       |-> cb.size,
                           percentage |-> (cb.seen_so_far * 100) \div cb.size])
    /\ tpc' = [tpc EXCEPT ![t] = "release"]
    /\ UNCHANGED <<cb, amt, tmp, calls, files, rvars, uvars>>

\* the end of the with block
Release(t) ==
    /\ tpc[t] = "release"
    /\ cb'  = [cb EXCEPT !.lock = Free]
    /\ tpc' = [tpc EXCEPT ![t] = "idle"]
    /\ UNCHANGED <<amt, tmp, calls, out, files, rvars, uvars>>

---------------------------------------------------------------------------
(* Specifications *)

ResolverAtStart ==
    /\ rpc = "start"
    /\ entry = "none"
    /\ handle = NoHandle
    /\ error = NoError
    /\ head = NoResponse
    /\ exists = NotCalled
    /\ rel = <<>>
    /\ s3_key = NoKey

UploadIdle ==
    /\ store = StoreLayout
    /\ given = [local |-> store, config |-> config]
    /\ run = "first"
    /\ upc = "idle"
    /\ idx = 0
    /\ log = <<>>
    /\ uerror = NoError
    /\ first = [status |-> "none", error |-> NoError, uploaded |-> {}, remote_end |-> {}]

NoTransfer ==
    /\ cb = NoCallback
    /\ tpc = [t \in Threads |-> "idle"]
    /\ amt = [t \in Threads |-> 0]
    /\ tmp = [t \in Threads |-> 0]
    /\ calls = <<>>
    /\ out = <<>>
    /\ files = 0

\* backend resolution, the bucket probe and key construction, for every URL
Init ==
    /\ remote_url \in Urls
    /\ config \in {[files |-> <<>>], [files |-> <<>>, remote |-> remote_url]}
    /\ bucket_there \in BOOLEAN
    /\ ResolverAtStart
    /\ UploadIdle
    /\ remote = {}
    /\ start = {}
    /\ NoTransfer

Next ==
    \/ GetFromUrl
    \/ GetFromConfig
    \/ CheckStorageExists
    \/ BuildKey

Spec == Init /\ [][Next]_vars

\* the URLs upload is run with
UploadUrls == {ExamplePrefixUrl}

DerivedKeys(prefix) == {S3Key(prefix, hash_to_remote_path(StoreLayout, h)) : h \in Hashes}

\* upload, twice, for every manifest and every remote state
InitUpload ==
    /\ remote_url \in UploadUrls
    /\ config \in {[files |-> m, remote |-> remote_url] : m \in Manifests}
    /\ bucket_there = TRUE
    /\ rpc = "resolved"
    /\ entry = "get_from_config"
    /\ handle = get_from_config(config)
    /\ error = NoError
    /\ head = NoResponse
    /\ exists = NotCalled
    /\ rel = <<>>
    /\ s3_key = NoKey
    /\ UploadIdle
    /\ remote \in {ks \cup {ForeignKey} : ks \in SUBSET DerivedKeys(handle.path_prefix)}
    /\ start = remote
    /\ NoTransfer

NextUpload ==
    \/ UploadBegin
    \/ UploadSkip
    \/ UploadTransfer
    \/ UploadTransferFails
    \/ UploadProbeRaises
    \/ UploadReturn
    \/ UploadAgain

SpecUpload == InitUpload /\ [][NextUpload]_vars

\* the callback of one transfer under its threads
InitProgress ==
    /\ remote_url = ExamplePrefixUrl
    /\ config = [files |-> <<>>, remote |-> remote_url]
    /\ bucket_there = TRUE
    /\ rpc = "resolved"
    /\ entry = "get_from_config"
    /\ handle = get_from_config(config)
    /\ error = NoError
    /\ head = NoResponse
    /\ exists = NotCalled
    /\ rel = <<>>
    /\ s3_key = NoKey
    /\ UploadIdle
    /\ remote = {}
    /\ start = {}
    /\ NoTransfer

NextProgress ==
    \/ StartTransfer
    \/ \E t \in Threads :
          \/ Invoke(t)
          \/ Acquire(t)
          \/ Load(t)
          \/ Store(t)
          \/ Write(t)
          \/ Release(t)

SpecProgress == InitProgress /\ [][NextProgress]_vars

---------------------------------------------------------------------------
(* Properties of backend resolution, the bucket probe and key construction *)

\* the URL the entry point that ran was given
ResolvedUrl == IF entry = "get_from_url" THEN remote_url ELSE config["remote"]

HasUrl == entry = "get_from_url" \/ (entry = "get_from_config" /\ "remote" \in DOMAIN config)

UrlDelims == {"/", "?", "#"}

\* b is the authority of an s3 URL: what follows "s3://", up to the first delimiter
IsAuthority(b, url) ==
    LET after == SubSeq(url, Len(S3Prefix) + 1, Len(url))
    IN  /\ startswith(after, b)
        /\ \A k \in 1..Len(b) : b[k] \notin UrlDelims
        /\ Len(after) > Len(b) => after[Len(b) + 1] \in UrlDelims

\* P is the path of an s3 URL with authority b: what follows the authority, up to
\* the first "?" or "#"
IsPath(P, b, url) ==
    LET after == SubSeq(url, Len(S3Prefix) + Len(b) + 1, Len(url))
    IN  /\ startswith(after, P)
        /\ \A k \in 1..Len(P) : P[k] \notin {"?", "#"}
        /\ Len(after) > Len(P) => after[Len(P) + 1] \in {"?", "#"}

\* T is P without its trailing whitespace
IsTrimmed(T, P) ==
    /\ startswith(P, T)
    /\ \A k \in (Len(T) + 1)..Len(P) : P[k] \in Whitespace
    /\ T # <<>> => T[Len(T)] \notin Whitespace

\* q is P without its leading slash
WithoutLeadingSlash(q, P) == (P = <<>> /\ q = <<>>) \/ P = <<"/">> \o q

Prefixes(url) == {SubSeq(url, 1, n) : n \in 0..Len(url)}
Pieces(url)   == {SubSeq(url, m, n) : m \in 1..(Len(url) + 1), n \in 0..Len(url)}

ResolutionOutcome(result) ==
    /\ handle = IF result.kind = "handle" THEN result ELSE NoHandle
    /\ error  = IF result.kind = "error" THEN result.error ELSE NoError

\* what C8 says of the two entry points, but for the path prefix
DispatchC8 ==
    /\ (HasUrl /\ handle # NoHandle) =>
          /\ startswith(ResolvedUrl, S3Prefix)
          /\ IsAuthority(handle.bucket_name, ResolvedUrl)
    /\ (HasUrl /\ ~startswith(ResolvedUrl, S3Prefix)) =>
          /\ handle = NoHandle
          /\ error = UnsupportedUrl
    /\ (HasUrl /\ startswith(ResolvedUrl, S3Prefix)) => handle # NoHandle
    /\ entry # "none" =>
          (error = NotConfigured <=> (entry = "get_from_config" /\ "remote" \notin DOMAIN config))
    /\ error = NotConfigured => handle = NoHandle
    /\ (entry = "get_from_config" /\ "remote" \in DOMAIN config) =>
          ResolutionOutcome(get_from_url(config["remote"]))

\* C8 as stated: resolve returns a handle only for s3 URLs, with bucket the URL
\* authority and path_prefix the URL path without its leading slash, and fails as
\* unsupported for every other URL; resolve_from_config fails as not configured
\* exactly when the remote field is missing and otherwise does as resolve does
C8_Original ==
    /\ DispatchC8
    /\ (HasUrl /\ handle # NoHandle) =>
          \E P \in Pieces(ResolvedUrl) :
              /\ IsPath(P, handle.bucket_name, ResolvedUrl)
              /\ WithoutLeadingSlash(handle.path_prefix, P)

\* C8, amended: as C8, with path_prefix the URL path with its trailing whitespace
\* trimmed and then its first leading slash removed
C8_Resolution ==
    /\ DispatchC8
    /\ (HasUrl /\ handle # NoHandle) =>
          \E P \in Pieces(ResolvedUrl) :
              /\ IsPath(P, handle.bucket_name, ResolvedUrl)
              /\ \E T \in Prefixes(P) :
                    /\ IsTrimmed(T, P)
                    /\ WithoutLeadingSlash(handle.path_prefix, T)

\* a URL whose path ends in whitespace was resolved from configuration
C8_Witness ==
    /\ entry = "get_from_config"
    /\ "remote" \in DOMAIN config
    /\ config["remote"] = S3Prefix \o <<"a", "/", "a", " ">>
    /\ handle # NoHandle
    /\ handle.bucket_name = <<"a">>
    /\ handle.path_prefix = <<"a">>

RECURSIVE rstripSlashes(_)
rstripSlashes(s) ==
    IF s # <<>> /\ s[Len(s)] = "/" THEN rstripSlashes(SubSeq(s, 1, Len(s) - 1)) ELSE s

HasDoubleSlash(s) == \E k \in 1..(Len(s) - 1) : s[k] = "/" /\ s[k + 1] = "/"

\* C7: the path_prefix of every accepted URL does not begin with a slash, and the
\* key is the prefix and the relative path joined by exactly one slash, with no
\* leading slash and no double slash
C7_KeyConstruction ==
    /\ handle # NoHandle => ~startswith(handle.path_prefix, <<"/">>)
    /\ s3_key # NoKey =>
          /\ ~startswith(s3_key, <<"/">>)
          /\ ~HasDoubleSlash(s3_key)
          /\ s3_key = IF rstripSlashes(handle.path_prefix) = <<>> THEN rel
                      ELSE rstripSlashes(handle.path_prefix) \o <<"/">> \o rel

---------------------------------------------------------------------------
(* Properties of upload *)

Transferred(e) == e.did \in {"uploaded", "transfer_failed"}

\* the key of every hash under every prefix upload is run with
KeyTable ==
    [p \in {AWSRemoteStorage(u).path_prefix : u \in UploadUrls} |->
        [h \in Hashes |-> S3Key(p, StoreLayout[h].remote_path)]]

KeyOf(h) == KeyTable[handle.path_prefix][h]

\* C1: a probe failure other than 404 aborts the sync: the entry is neither
\* skipped nor uploaded, and nothing is probed or transferred after it
C1_ProbeFailureAborts ==
    \A j \in DOMAIN log :
        (log[j].resp # OkResponse /\ log[j].resp # ClientError(Code404)) =>
            /\ log[j].did = "probe_raised"
            /\ j = Len(log)
            /\ upc = "failed"
            /\ uerror # NoError

\* C3: after a first run that completed without error, a second run over the same
\* manifest transfers nothing and leaves the remote as it was
C3_Idempotence ==
    (run = "second" /\ first.status = "done") =>
        /\ \A j \in DOMAIN log : ~Transferred(log[j])
        /\ remote = first.remote_end

\* C4: entries with the same hash have the same key, and one run transfers at most
\* once to any key
C4_Dedup ==
    \A i, j \in DOMAIN log :
        /\ log[i].hash = log[j].hash => log[i].key = log[j].key
        /\ (i # j /\ log[i].key = log[j].key) => ~(Transferred(log[i]) /\ Transferred(log[j]))

\* a manifest names a hash twice; the first entry was uploaded, the second skipped
C4_Witness ==
    /\ upc = "done"
    /\ \E i, j \in DOMAIN log :
          /\ i < j
          /\ log[i].hash = log[j].hash
          /\ log[i].did = "uploaded"
          /\ log[j].did = "skipped"

AllProbesAnswered ==
    \A j \in DOMAIN log :
        /\ log[j].resp \in {OkResponse, ClientError(Code404)}
        /\ log[j].did # "transfer_failed"

\* C5: when every probe answers present or not-found and no transfer fails, the
\* entries are processed one at a time in manifest order, exactly those whose key
\* was absent when probed are transferred and the others skipped, and on return
\* every key of the manifest is in the remote
C5_UploadsTheAbsent ==
    AllProbesAnswered =>
        /\ Len(log) <= Len(config["files"])
        /\ upc = "loop" => Len(log) = idx - 1
        /\ \A j \in DOMAIN log :
              /\ log[j].hash = config["files"][j].hash
              /\ log[j].key = KeyOf(log[j].hash)
              /\ log[j].did = IF log[j].there THEN "skipped" ELSE "uploaded"
        /\ upc = "done" =>
              /\ Len(log) = Len(config["files"])
              /\ \A k \in DOMAIN config["files"] : KeyOf(config["files"][k].hash) \in remote
        /\ upc # "failed"

\* manifest h1, h2, h3 with only h2's object in the remote: h1 and h3 were
\* transferred and h2 skipped
C5_Witness ==
    /\ run = "first"
    /\ upc = "done"
    /\ config["files"] = <<[hash |-> "h1"], [hash |-> "h2"], [hash |-> "h3"]>>
    /\ start = {ForeignKey, KeyOf("h2")}
    /\ [j \in DOMAIN log |-> log[j].did] = <<"uploaded", "skipped", "uploaded">>
    /\ remote = start \cup {KeyOf("h1"), KeyOf("h3")}

\* C6: a failed transfer ends the run with the error: its entry is the last one
\* probed or transferred and is not retried; what earlier entries uploaded stays in
\* the remote; a re-run transfers only to keys that hold no object yet
C6_TransferFailureHalts ==
    /\ \A j \in DOMAIN log :
          /\ log[j].did = "transfer_failed" =>
                /\ j = Len(log)
                /\ upc = "failed"
                /\ uerror = S3UploadFailedError
          /\ log[j].did = "uploaded" => log[j].key \in remote
    /\ (run = "second" /\ first.error = S3UploadFailedError) =>
          /\ first.status = "failed"
          /\ first.uploaded \subseteq remote
          /\ \A j \in DOMAIN log :
                Transferred(log[j]) =>
                    /\ ~log[j].there
                    /\ log[j].key \notin first.remote_end

\* a first run uploaded an entry and then failed in a transfer; the re-run skipped
\* what was uploaded, transferred the rest and returned
C6_Witness ==
    /\ run = "second"
    /\ first.status = "failed"
    /\ first.error = S3UploadFailedError
    /\ first.uploaded # {}
    /\ upc = "done"
    /\ \E j \in DOMAIN log : log[j].did = "uploaded"
    /\ \E j \in DOMAIN log : log[j].did = "skipped" /\ log[j].key \in first.uploaded

UploadedKeys == {log[j].key : j \in {k \in DOMAIN log : log[k].did = "uploaded"}}

ManifestKeys == {KeyOf(config["files"][k].hash) : k \in DOMAIN config["files"]}

\* C10: in every run, aborted or not, upload only adds objects to the remote: no
\* object is deleted, no key whose probe answered present is transferred to, no
\* key outside the manifest's is touched, and the store and the manifest stay
\* as they were
C10_Frame ==
    /\ start \subseteq remote
    /\ run = "second" => first.remote_end \subseteq remote
    /\ ForeignKey \in remote
    /\ remote \ start = UploadedKeys \ start
    /\ remote \ start \subseteq ManifestKeys
    /\ \A j \in DOMAIN log :
          /\ log[j].resp = OkResponse => log[j].did = "skipped"
          /\ Transferred(log[j]) => ~log[j].there
          /\ log[j].key \in ManifestKeys
    /\ store = given.local
    /\ config = given.config

\* an aborted run that had skipped a present key and uploaded an absent one
C10_Witness ==
    /\ upc = "failed"
    /\ \E j \in DOMAIN log : log[j].did = "uploaded"
    /\ \E j \in DOMAIN log : log[j].did = "skipped" /\ log[j].resp = OkResponse
    /\ remote # start

---------------------------------------------------------------------------
(* Properties of the progress callback *)

ReportsAreSums ==
    /\ Len(out) <= Len(calls)
    /\ Len(calls) <= Len(out) + 1
    /\ \A k \in DOMAIN out : out[k].seen = SumAmounts(calls, k)
    /\ (files > 0 /\ AllIdle) =>
          /\ Len(out) = Len(calls)
          /\ cb.seen_so_far = SumAmounts(calls, Len(calls))
    /\ (files > 0 /\ calls = <<>>) => cb.seen_so_far = 0

\* C9 as stated: under every interleaving no increment is lost, the reported
\* counts are non-decreasing, each is the sum of the amounts of the invocations
\* that have taken the lock so far, the final count is the sum of all amounts, and
\* each transferred file has a counter of its own that starts at 0
C9_Original ==
    /\ ReportsAreSums
    /\ \A k \in DOMAIN out : k > 1 => out[k].seen >= out[k - 1].seen

\* C9, amended: as C9, but a report is not below the one before it only when its
\* invocation's amount is not negative; every report differs from the one before
\* it by its invocation's amount
C9_Progress ==
    /\ ReportsAreSums
    /\ \A k \in DOMAIN out :
          k > 1 =>
              /\ out[k].seen = out[k - 1].seen + calls[k].amount
              /\ calls[k].amount >= 0 => out[k].seen >= out[k - 1].seen

\* the second file's callback has reported twice, for two threads, and one thread
\* holds the lock while the other waits for it
C9_Witness ==
    /\ files = MaxFiles
    /\ Len(out) >= 2
    /\ \E t, u \in Threads :
          /\ t # u
          /\ tpc[t] \in {"load", "store", "write", "release"}
          /\ tpc[u] = "acquire"
          /\ \E i, j \in DOMAIN calls : calls[i].thread = t /\ calls[j].thread = u
=============================================================================
